---- MODULE Spec2Model ----
(***************************************************************************)
(* Cash tracker: the SQLite transaction table of app.py / web.py, the      *)
(* operations that write it (add_transaction_db, the CLI add command, the  *)
(* web add form, migrate_from_csv) and the ones that read it (show_balance,*)
(* monthly_report, the dashboard of web.index, export_csv).                *)
(*                                                                         *)
(* Text is a sequence of one-character strings, so that strip(), lower(),  *)
(* float(), str() and SQL LIKE are computed character by character.        *)
(* Amounts are REAL values; the model holds them as an integer number of   *)
(* tenths (2.5 is 25), which is exact for every amount text drawn here.    *)
(***************************************************************************)
EXTENDS Integers, Sequences, FiniteSets, TLC

VARIABLES store, last

vars == <<store, last>>

(* ------------------------------ text --------------------------------- *)

\* Python None / SQL NULL: a one-element sequence no text can equal.
None == <<"NULL">>

DigitChars == <<"0", "1", "2", "3", "4", "5", "6", "7", "8", "9">>

UpperChars == <<"A", "B", "C", "D", "E", "F", "G", "H", "I", "J", "K", "L", "M",
                "N", "O", "P", "Q", "R", "S", "T", "U", "V", "W", "X", "Y", "Z">>

LowerChars == <<"a", "b", "c", "d", "e", "f", "g", "h", "i", "j", "k", "l", "m",
                "n", "o", "p", "q", "r", "s", "t", "u", "v", "w", "x", "y", "z">>

\* The characters of the model in ASCII order (space, %, +, comma, -, .,
\* digits, upper case, _, lower case): the order SQLite's BINARY collation
\* compares TEXT by.
Ascii == <<" ", "%", "+", ",", "-", ".">> \o DigitChars \o UpperChars
            \o <<"_">> \o LowerChars

IndexOf(seq, c) == CHOOSE i \in 1..Len(seq) : seq[i] = c

IsIn(seq, c) == \E i \in 1..Len(seq) : seq[i] = c

Ord(c) == IndexOf(Ascii, c)

\* str.lower() on one character.
LowerChar(c) == IF IsIn(UpperChars, c) THEN LowerChars[IndexOf(UpperChars, c)] ELSE c

\* str.lower()
Lower(s) == [i \in 1..Len(s) |-> LowerChar(s[i])]

IsSpace(c) == c = " "

RECURSIVE LStrip(_)
LStrip(s) == IF s # <<>> /\ IsSpace(Head(s)) THEN LStrip(Tail(s)) ELSE s

RECURSIVE RStrip(_)
RStrip(s) ==
    IF s # <<>> /\ IsSpace(s[Len(s)]) THEN RStrip(SubSeq(s, 1, Len(s) - 1)) ELSE s

\* str.strip()
Strip(s) == RStrip(LStrip(s))

\* Python's `x or d`: the empty string and None are falsy.
OrElse(x, d) == IF x = <<>> \/ x = None THEN d ELSE x

\* Lexicographic comparison of two texts by character code (memcmp).
RECURSIVE TextLess(_, _)
TextLess(s, t) ==
    IF t = <<>> THEN FALSE
    ELSE IF s = <<>> THEN TRUE
    ELSE IF Head(s) = Head(t) THEN TextLess(Tail(s), Tail(t))
    ELSE Ord(Head(s)) < Ord(Head(t))

(* ------------------------- float() and str() ------------------------- *)

AllDigits(s) == \A i \in 1..Len(s) : IsIn(DigitChars, s[i])

DigitVal(c) == IndexOf(DigitChars, c) - 1

RECURSIVE DigitsVal(_)
DigitsVal(s) == IF s = <<>> THEN 0 ELSE DigitsVal(SubSeq(s, 1, Len(s) - 1)) * 10 + DigitVal(s[Len(s)])

\* float() raising ValueError.
ValueError == [ok |-> FALSE, val |-> 0]

Float(v) == [ok |-> TRUE, val |-> v]

\* Unsigned decimal "ddd", "ddd.", ".d", "ddd.d": its value in tenths, or
\* ValueError.  Fraction digits after the first must be 0: finer amounts,
\* exponents, underscores, inf and nan are not among the texts drawn.
ParseUnsigned(s) ==
    IF IsIn(s, ".")
    THEN LET p    == IndexOf(s, ".")
             ip   == SubSeq(s, 1, p - 1)
             fp   == SubSeq(s, p + 1, Len(s))
         IN  IF AllDigits(ip) /\ AllDigits(fp) /\ (ip # <<>> \/ fp # <<>>)
                /\ \A i \in 2..Len(fp) : fp[i] = "0"
             THEN Float(DigitsVal(ip) * 10 + (IF fp = <<>> THEN 0 ELSE DigitVal(fp[1])))
             ELSE ValueError
    ELSE IF s # <<>> /\ AllDigits(s) THEN Float(DigitsVal(s) * 10) ELSE ValueError

\* float(text): surrounding whitespace is ignored, one optional sign, then
\* a decimal number; anything else raises ValueError.
ParseFloat(text) ==
    LET s == Strip(text)
    IN  IF s = <<>> THEN ValueError
        ELSE IF Head(s) = "-"
             THEN LET u == ParseUnsigned(Tail(s))
                  IN  IF u.ok THEN Float(0 - u.val) ELSE ValueError
        ELSE IF Head(s) = "+" THEN ParseUnsigned(Tail(s))
        ELSE ParseUnsigned(s)

RECURSIVE NatStr(_)
NatStr(n) == IF n < 10 THEN <<DigitChars[n + 1]>>
             ELSE NatStr(n \div 10) \o <<DigitChars[(n % 10) + 1]>>

\* str(float): "40.0", "2.5", "-5.0".
FormatFloat(v) ==
    IF v < 0 THEN <<"-">> \o NatStr((0 - v) \div 10) \o <<".">> \o NatStr((0 - v) % 10)
    ELSE NatStr(v \div 10) \o <<".">> \o NatStr(v % 10)

(* ------------------------------ SQL LIKE ----------------------------- *)

\* SQLite's LIKE: % matches any run of characters, _ any one character,
\* every other character matches itself ignoring ASCII case.
RECURSIVE Like(_, _)
Like(pat, s) ==
    IF pat = <<>> THEN s = <<>>
    ELSE IF Head(pat) = "%"
         THEN \E k \in 0..Len(s) : Like(Tail(pat), SubSeq(s, k + 1, Len(s)))
    ELSE IF s = <<>> THEN FALSE
    ELSE IF Head(pat) = "_" THEN Like(Tail(pat), Tail(s))
    ELSE LowerChar(Head(pat)) = LowerChar(Head(s)) /\ Like(Tail(pat), Tail(s))

\* str.startswith: the literal prefix test.
StartsWith(s, p) == Len(p) <= Len(s) /\ SubSeq(s, 1, Len(p)) = p

(* ------------------------------ inputs ------------------------------- *)

\* Size of the pool of identifiers uuid.uuid4() draws from.
MaxUuid == 1

Income == <<"i", "n", "c", "o", "m", "e">>

Expense == <<"e", "x", "p", "e", "n", "s", "e">>

IncomeCap == <<"I", "n", "c", "o", "m", "e">>

Uncategorized == <<"U", "n", "c", "a", "t", "e", "g", "o", "r", "i", "z", "e", "d">>

Food == <<"F", "o", "o", "d">>

Jan05 == <<"2", "0", "2", "6", "-", "0", "1", "-", "0", "5">>

Feb01T == <<"2", "0", "2", "6", "-", "0", "2", "-", "0", "1", "T">>

\* Values datetime.now().isoformat() can return.
Nows == { <<"2", "0", "2", "6", "-", "1", "1", "-", "0", "2", "T">>,
          <<"2", "0", "2", "6", "-", "1", "2", "-", "0", "1", "T">> }

\* Argument sets of one add (command line flags, form fields, or the
\* answers typed at the prompts).  None is a flag or field that is absent.
Form(amount, direction, category, account, description, tags, date) ==
    [amount |-> amount, direction |-> direction, category |-> category,
     account |-> account, description |-> description, tags |-> tags, date |-> date]

Forms == <<
    Form(<<"4", "0">>, Income, <<>>, <<>>, <<>>, <<>>, Jan05),
    Form(<<"2", ".", "5">>, Expense, Food, <<"x">>, <<"x">>, <<"a", ",", "b">>, Feb01T),
    Form(<<"-", "5">>, Expense, Uncategorized, <<>>, <<>>, <<>>, <<>>),
    Form(<<" ", "4", "0">>, Expense, <<>>, <<>>, <<>>, <<>>, <<" ">>),
    Form(<<"a", "b", "c">>, Income, <<>>, <<>>, <<>>, <<>>, Jan05),
    Form(<<"4", "0">>, IncomeCap, <<>>, <<>>, <<>>, <<>>, Jan05),
    Form(None, None, Food, <<>>, <<>>, <<>>, Jan05) >>

(* --------------------------- the table ------------------------------- *)

\* One row of the transactions table.
Row(id, date, amount, direction, category, account, description, tags) ==
    [id |-> id, date |-> date, amount |-> amount, direction |-> direction,
     category |-> category, account |-> account, description |-> description,
     tags |-> tags]

\* str(uuid.uuid4()): the n-th identifier of the pool.
Uuid(n) == <<"u">> \o NatStr(n)

IsUuid(id) == id # <<>> /\ Head(id) = "u"

\* A fresh identifier: uuid4 never repeats one the table already holds.
NewUuid(tbl) == Uuid(Cardinality({r \in tbl : IsUuid(r.id)}) + 1)

\* The table without the CHECK on direction.
ConstraintsWithoutCheck(row) ==
    /\ row.date # None
    /\ row.direction # None

\* The CHECK and NOT NULL constraints of SQL_INIT.
Constraints(row) ==
    /\ row.direction \in {Income, Expense}
    /\ row.date # None
    /\ row.direction # None

HasId(tbl, id) == \E r \in tbl : r.id = id

\* A plain INSERT that ignores the primary key: the old row stays.
InsertKeepsOld(tbl, row) ==
    IF Constraints(row)
    THEN [ok |-> TRUE, tbl |-> tbl \cup {row}]
    ELSE [ok |-> FALSE, tbl |-> tbl]

\* INSERT OR REPLACE: a constraint failure raises IntegrityError and the
\* table is unchanged; otherwise the row takes the place of the row with
\* its id, if any.
InsertOrReplace(tbl, row) ==
    IF Constraints(row)
    THEN [ok |-> TRUE, tbl |-> {r \in tbl : r.id # row.id} \cup {row}]
    ELSE [ok |-> FALSE, tbl |-> tbl]

\* INSERT OR REPLACE in the place of INSERT OR IGNORE.
InsertOverwrites(tbl, row) ==
    IF Constraints(row) THEN {r \in tbl : r.id # row.id} \cup {row} ELSE tbl

\* INSERT OR IGNORE: the row is dropped when it breaks a constraint or its
\* id is already in the table.
InsertOrIgnore(tbl, row) ==
    IF Constraints(row) /\ ~HasId(tbl, row.id) THEN tbl \cup {row} ELSE tbl

\* add_transaction_db: amount is a float already.
AddTransactionDb(tbl, amount, direction, category, account, description, tags, date, tid, now) ==
    LET id  == OrElse(tid, NewUuid(tbl))
        row == Row(id, OrElse(date, now), amount, direction,
                   OrElse(category, None), OrElse(account, None),
                   OrElse(description, None), OrElse(tags, None))
        res == InsertOrReplace(tbl, row)
    IN  [ok |-> res.ok, tbl |-> res.tbl, id |-> id]

UuidsLeft(tbl) == Cardinality({r \in tbl : IsUuid(r.id)}) <= MaxUuid

(* ------------------------------ adding ------------------------------- *)

\* What the last operation was, with its inputs and what it reported.
Done(op, arg, out) == [op |-> op, arg |-> arg, out |-> out]

\* datetime.now() is called only when no date was given.
ClockReads(date) == IF OrElse(date, <<>>) = <<>> THEN Nows
                    ELSE {CHOOSE n \in Nows : TRUE}

\* The candidate record a front end hands to the table.
Candidate(amount, direction, category, account, description, tags, date) ==
    [ok |-> TRUE, amount |-> amount, direction |-> direction, category |-> category,
     account |-> account, description |-> description, tags |-> tags, date |-> date]

NoCandidate ==
    [ok |-> FALSE, amount |-> 0, direction |-> None, category |-> None,
     account |-> None, description |-> None, tags |-> None, date |-> <<"-">>]

\* The Record Store's put: a record with a numeric amount, as
\* add_transaction_db takes it.
PutForms == {1, 2}

PutIds == { <<"a">> }

PutCandidate == [f \in PutForms |->
    LET a == Forms[f]
    IN  Candidate(ParseFloat(a.amount).val, a.direction, a.category, a.account,
                  a.description, a.tags, a.date)]

Put(f, tid, now) ==
    LET c   == PutCandidate[f]
        res == AddTransactionDb(store, c.amount, c.direction, c.category, c.account,
                                c.description, c.tags, c.date, tid, now)
    IN  /\ UuidsLeft(res.tbl)
        /\ store' = res.tbl
        /\ last' = Done("put", [form |-> f, tid |-> tid],
                        [ok |-> res.ok, id |-> res.id, replaced |-> HasId(store, res.id)])

\* argparse: --amount has type=float, --direction has choices.
ArgparseOk(a) ==
    /\ a.amount # None => ParseFloat(a.amount).ok
    /\ a.direction # None => a.direction \in {Income, Expense}

\* main() takes the prompts when --amount or --direction is missing.
Interactive(a) == a.amount = None \/ a.direction = None

CliForms == {3, 5, 6, 7}

CliAnswers == {4, 6}

\* `app.py add` with a flag argparse refuses: usage error, exit status 2.
AddCliUsage(f) ==
    /\ ~ArgparseOk(Forms[f])
    /\ UNCHANGED store
    /\ last' = Done("cli", [form |-> f, ans |-> 0], [ok |-> FALSE, id |-> <<>>])

\* `app.py add --amount .. --direction ..`: main() calls add_transaction_db
\* with the flags; the float of type=float is the amount.
CliCandidate == [f \in CliForms |->
    LET a == Forms[f]
    IN  IF ArgparseOk(a) /\ ~Interactive(a)
        THEN Candidate(ParseFloat(a.amount).val, a.direction, a.category, a.account,
                       a.description, a.tags, a.date)
        ELSE NoCandidate]

AddCliFlags(f, now) ==
    LET c   == CliCandidate[f]
        res == AddTransactionDb(store, c.amount, c.direction, c.category, c.account,
                                c.description, c.tags, c.date, None, now)
    IN  /\ c.ok
        /\ UuidsLeft(res.tbl)
        /\ store' = res.tbl
        /\ last' = Done("cli", [form |-> f, ans |-> 0], [ok |-> res.ok, id |-> res.id])

\* prompt_amount returns once float() accepts the stripped answer.
PromptAmountAccepts(val) == val # None /\ ParseFloat(Strip(val)).ok

\* prompt_direction returns once the stripped, lowered answer is one of
\* the two directions.
PromptDirectionAccepts(val) == val # None /\ Lower(Strip(val)) \in {Income, Expense}

\* prompt_text with an empty default.
PromptText(val) == Strip(val)

\* interactive_add: q holds the answer each prompt finally returns with.
InteractiveCandidate == [f \in CliForms, ans \in CliAnswers |->
    LET a == Forms[f]
        q == Forms[ans]
    IN  IF /\ ArgparseOk(a) /\ Interactive(a)
           /\ a.amount = None => PromptAmountAccepts(q.amount)
           /\ a.direction = None => PromptDirectionAccepts(q.direction)
        THEN LET date == IF OrElse(a.date, <<>>) # <<>> THEN a.date ELSE PromptText(q.date)
             IN  Candidate(
                    IF a.amount # None THEN ParseFloat(a.amount).val
                    ELSE ParseFloat(Strip(q.amount)).val,
                    IF a.direction # None THEN a.direction ELSE Lower(Strip(q.direction)),
                    IF a.category # <<>> THEN a.category ELSE PromptText(q.category),
                    IF a.account # <<>> THEN a.account ELSE PromptText(q.account),
                    IF a.description # <<>> THEN a.description ELSE PromptText(q.description),
                    IF a.tags # <<>> THEN a.tags ELSE PromptText(q.tags),
                    IF date # <<>> THEN date ELSE None)
        ELSE NoCandidate]

AddCliInteractive(f, ans, now) ==
    LET c   == InteractiveCandidate[f, ans]
        res == AddTransactionDb(store, c.amount, c.direction, c.category, c.account,
                                c.description, c.tags, c.date, None, now)
    IN  /\ c.ok
        /\ UuidsLeft(res.tbl)
        /\ store' = res.tbl
        /\ last' = Done("cli", [form |-> f, ans |-> ans], [ok |-> res.ok, id |-> res.id])

WebForms == {3, 4, 5, 6, 7}

WebIds == { <<>>, <<"a">> }

\* The fields POST /add reads from the form; a bad amount flashes an error
\* and redirects before anything is stored.
WebCandidate == [f \in WebForms |->
    LET a   == Forms[f]
        amt == ParseFloat(Strip(IF a.amount = None THEN <<"0">> ELSE a.amount))
        date_in == OrElse(a.date, None)
    IN  IF amt.ok
        THEN Candidate(amt.val, OrElse(a.direction, Expense), OrElse(a.category, None),
                       OrElse(a.account, None), OrElse(a.description, None),
                       OrElse(a.tags, None),
                       IF date_in # None THEN Strip(date_in) ELSE None)
        ELSE NoCandidate]

\* POST /add of web.py.
AddWeb(f, tid, now) ==
    LET c == WebCandidate[f]
    IN  IF ~c.ok
        THEN /\ UNCHANGED store
             /\ last' = Done("web", [form |-> f, tid |-> tid],
                             [ok |-> FALSE, id |-> <<>>, replaced |-> FALSE])
        ELSE LET id  == IF tid = <<>> THEN NewUuid(store) ELSE tid
                 row == Row(id, IF c.date # None THEN c.date ELSE now, c.amount,
                            c.direction, c.category, c.account, c.description, c.tags)
                 res == InsertOrReplace(store, row)
             IN  /\ UuidsLeft(res.tbl)
                 /\ store' = res.tbl
                 /\ last' = Done("web", [form |-> f, tid |-> tid],
                                 [ok |-> res.ok, id |-> id, replaced |-> HasId(store, id)])

(* ------------------------------ migrate ------------------------------ *)

\* One row as csv.DictReader yields it: a text per column, None for a cell
\* the line does not have.
SourceRow(id, date, amount, direction, category, account, description, tags) ==
    [id |-> id, date |-> date, amount |-> amount, direction |-> direction,
     category |-> category, account |-> account, description |-> description,
     tags |-> tags]

\* Contents transactions.csv can have.
Sources == <<
    << SourceRow(<<"a">>, Jan05, <<"4", "0">>, Income, <<>>, <<>>, <<>>, <<>>),
       SourceRow(<<"b">>, <<>>, <<"-", "5">>, <<>>, Food, <<>>, <<>>, <<>>) >>,
    << SourceRow(<<>>, Feb01T, <<>>, <<>>, <<>>, <<>>, <<>>, None),
       SourceRow(<<"a">>, Jan05, <<"a", "b", "c">>, Income, <<>>, <<>>, <<>>, <<>>),
       SourceRow(<<"b">>, Jan05, <<"2", ".", "5">>, IncomeCap, <<>>, <<>>, <<>>, <<>>) >>,
    << SourceRow(<<"a">>, Feb01T, <<"2", ".", "5">>, Expense, Uncategorized, <<"x">>, <<>>, <<>>),
       SourceRow(<<"a">>, Jan05, <<"4", "0">>, Income, <<>>, <<>>, <<>>, <<>>) >> >>

SourceIds == 1..Len(Sources)

\* The normalisation migrate_from_csv applies to a row before the insert:
\* skip is the ValueError branch; an empty id or date is filled in later,
\* from uuid4 and the clock.
ParseSourceRow(r) ==
    LET amt == IF OrElse(r.amount, <<>>) = <<>> THEN Float(0) ELSE ParseFloat(r.amount)
    IN  [skip |-> ~amt.ok,
         id |-> OrElse(r.id, <<>>),
         date |-> OrElse(r.date, <<>>),
         amount |-> amt.val,
         direction |-> OrElse(r.direction, IF amt.val >= 0 THEN Income ELSE Expense),
         category |-> OrElse(r.category, None),
         account |-> OrElse(r.account, None),
         description |-> OrElse(r.description, None),
         tags |-> OrElse(r.tags, None)]

ParseSource(rows) == [k \in 1..Len(rows) |-> ParseSourceRow(rows[k])]

Parsed == [s \in SourceIds |-> ParseSource(Sources[s])]

\* The rows whose date comes from datetime.now(), and the readings of the
\* clock one run can get for them.
Clocks(rows) == [{k \in 1..Len(rows) : rows[k].date = <<>>} -> Nows]

\* The loop of migrate_from_csv over the first n rows, inside the
\* connection's transaction: the table as the transaction sees it, and the
\* imported counter.
RECURSIVE MigrateRows(_, _, _, _)
MigrateRows(tbl, rows, clock, n) ==
    IF n = 0 THEN [tbl |-> tbl, imported |-> 0]
    ELSE LET prev == MigrateRows(tbl, rows, clock, n - 1)
             r    == rows[n]
         IN  IF r.skip THEN prev
             ELSE [tbl |-> InsertOrIgnore(prev.tbl,
                              Row(IF r.id = <<>> THEN NewUuid(prev.tbl) ELSE r.id,
                                  IF r.date = <<>> THEN clock[n] ELSE r.date,
                                  r.amount, r.direction, r.category, r.account,
                                  r.description, r.tags)),
                   imported |-> prev.imported + 1]

\* `with get_conn() as conn` left normally: the transaction is committed.
Commit(before, txn) == txn

\* An exit that commits what the transaction did so far.
RollbackKeepsRows(before, txn) == txn

\* `with get_conn() as conn` left by an exception: the transaction is
\* rolled back.
Rollback(before, txn) == before

\* A source row meets a stored record with its id and other field values.
Clash(tbl, rows) ==
    \E k \in 1..Len(rows) : \E r \in tbl :
        /\ ~rows[k].skip /\ rows[k].id = r.id
        /\ \/ rows[k].amount # r.amount \/ rows[k].direction # r.direction
           \/ rows[k].date # r.date \/ rows[k].category # r.category

\* `app.py migrate` when transactions.csv does not exist.
MigrateNoFile ==
    /\ UNCHANGED store
    /\ last' = Done("nofile", <<>>, <<>>)

\* `app.py migrate` running to its end.
Migrate(s, clock) ==
    LET rows == Parsed[s]
        txn  == MigrateRows(store, rows, clock, Len(rows))
    IN  /\ UuidsLeft(txn.tbl)
        /\ store' = Commit(store, txn.tbl)
        /\ last' = Done("migrate", [src |-> s],
                        [ok |-> TRUE, imported |-> txn.imported,
                         added |-> Cardinality(txn.tbl) - Cardinality(store),
                         clash |-> Clash(store, rows)])

\* `app.py migrate` ended by an exception other than the handled
\* ValueError while row k is read or inserted (csv.Error,
\* UnicodeDecodeError, sqlite3.OperationalError).
MigrateFails(s, k, clock) ==
    LET rows == Parsed[s]
        txn  == MigrateRows(store, rows, clock, k - 1)
    IN  /\ UuidsLeft(txn.tbl)
        /\ store' = Rollback(store, txn.tbl)
        /\ last' = Done("migrate_failed", [src |-> s, row |-> k],
                        [ok |-> FALSE, before |-> store, pending |-> txn.tbl])

(* ------------------------------ reports ------------------------------ *)

RECURSIVE SumAmounts(_)
SumAmounts(rows) ==
    IF rows = {} THEN 0
    ELSE LET r == CHOOSE x \in rows : TRUE
         IN  r.amount + SumAmounts(rows \ {r})

\* The loop of show_balance and monthly_report: a row that is not income
\* is added to expense.
Totals(rows) ==
    LET income  == SumAmounts({r \in rows : r.direction = Income})
        expense == SumAmounts({r \in rows : r.direction # Income})
    IN  [income |-> income, expense |-> expense, balance |-> income - expense]

\* `app.py balance`
ShowBalance ==
    /\ UNCHANGED store
    /\ last' = Done("balance", <<>>, Totals(store))

Months == { <<"2", "0", "2", "6", "-", "0", "1">>,
            <<"2", "0", "2", "6", "-", "0", "2">>,
            <<"2", "0", "9", "9", "-", "0", "1">>,
            <<"2", "0", "2", "6", "-", "0", "_">>,
            <<"2", "0", "2", "6", "-", "0", "2", "-", "0", "1", "t">> }

\* WHERE date LIKE ? with the parameter f"{month}%".
MonthRows(tbl, month) == {r \in tbl : Like(month \o <<"%">>, r.date)}

\* `app.py monthly --month ..`
MonthlyReport(month) ==
    /\ UNCHANGED store
    /\ last' = Done("monthly", [month |-> month], Totals(MonthRows(store, month)))

\* SQL SUM over the rows of a SELECT: NULL when there is no row.
SqlSum(rows, counted) ==
    IF rows = {} THEN [null |-> TRUE, val |-> 0]
    ELSE [null |-> FALSE, val |-> SumAmounts(counted)]

\* Python's `x or 0.0` on a column value.
OrZero(x) == IF x.null THEN 0 ELSE x.val

\* The totals of the dashboard.
IndexTotals(tbl) ==
    LET income  == OrZero(SqlSum(tbl, {r \in tbl : r.direction = Income}))
        expense == OrZero(SqlSum(tbl, {r \in tbl : r.direction = Expense}))
    IN  [income |-> income, expense |-> expense, balance |-> income - expense]

\* All orders of a finite set.
Perms(S) == {f \in [1..Cardinality(S) -> S] : \A i, j \in DOMAIN f : f[i] = f[j] => i = j}

\* The groups of GROUP BY category over the expense rows: one per value of
\* the category column, NULL being one value.
CategoryGroups(tbl) == {r.category : r \in {x \in tbl : x.direction = Expense}}

\* The result row of one group: COALESCE(category, 'Uncategorized') and
\* SUM(amount).
CategoryEntry(tbl, c) ==
    [category |-> IF c = None THEN Uncategorized ELSE c,
     total |-> SumAmounts({r \in tbl : r.direction = Expense /\ r.category = c})]

\* expense_by_cat: the groups' rows ORDER BY total DESC, in any order among
\* equal totals.
ExpenseByCat(tbl) ==
    { [i \in DOMAIN f |-> CategoryEntry(tbl, f[i])] : f \in
        { g \in Perms(CategoryGroups(tbl)) :
            \A i, j \in DOMAIN g :
                i < j => CategoryEntry(tbl, g[i]).total >= CategoryEntry(tbl, g[j]).total } }

\* substr(date,1,7)
MonthOf(date) == SubSeq(date, 1, IF Len(date) < 7 THEN Len(date) ELSE 7)

\* SUM(CASE WHEN direction='income' THEN amount ELSE -amount END) over the
\* rows of one month.
MonthNet(tbl, month) ==
    LET rows == {r \in tbl : MonthOf(r.date) = month}
    IN  SumAmounts({r \in rows : r.direction = Income})
           - SumAmounts({r \in rows : r.direction # Income})

\* The monthly series: GROUP BY month ORDER BY month DESC LIMIT 12, then
\* reversed.
MonthlySeries(tbl) ==
    LET months == {MonthOf(r.date) : r \in tbl}
        desc   == CHOOSE g \in Perms(months) :
                     \A i, j \in DOMAIN g : i < j => TextLess(g[j], g[i])
        n      == IF Len(desc) < 12 THEN Len(desc) ELSE 12
    IN  [i \in 1..n |-> [month |-> desc[n + 1 - i], net |-> MonthNet(tbl, desc[n + 1 - i])]]

\* GET / of web.py: the totals, the expense-by-category list and the
\* monthly series.
Index ==
    /\ UNCHANGED store
    /\ \E cats \in ExpenseByCat(store) :
          last' = Done("index", <<>>,
                       [totals |-> IndexTotals(store), cats |-> cats,
                        monthly |-> MonthlySeries(store)])

(* ------------------------------ export ------------------------------- *)

\* SELECT * FROM transactions ORDER BY date DESC: any order the sort
\* allows among equal dates.
ReadTransactionsDb(tbl) ==
    {f \in Perms(tbl) : \A i, j \in DOMAIN f : i < j => ~TextLess(f[i].date, f[j].date)}

\* What csv.DictWriter writes for a value: the empty text for None, str()
\* of a float.
CsvText(v) == IF v = None THEN <<>> ELSE v

\* One line of the export, as csv.DictReader reads it back.
ExportRow(r) ==
    SourceRow(CsvText(r.id), CsvText(r.date), FormatFloat(r.amount), CsvText(r.direction),
              CsvText(r.category), CsvText(r.account), CsvText(r.description),
              CsvText(r.tags))

\* `app.py export --out ..`
ExportCsv ==
    /\ UNCHANGED store
    /\ \E rows \in ReadTransactionsDb(store) :
          last' = Done("export", <<>>, [file |-> [i \in DOMAIN rows |-> ExportRow(rows[i])]])

\* `app.py migrate` on the exported file, into a database that has no row.
MigrateIntoEmpty ==
    /\ last.op = "export"
    /\ UNCHANGED store
    /\ LET rows == ParseSource(last.out.file)
       IN  \E clock \in Clocks(rows) :
             last' = Done("reimport", <<>>,
                          [result |-> Commit({}, MigrateRows({}, rows, clock, Len(rows)).tbl)])

Init == store = {} /\ last = Done("init", <<>>, <<>>)

Next ==
    \/ \E f \in PutForms, tid \in PutIds : \E now \in ClockReads(PutCandidate[f].date) :
          Put(f, tid, now)
    \/ \E f \in CliForms : AddCliUsage(f)
    \/ \E f \in CliForms : \E now \in ClockReads(CliCandidate[f].date) : AddCliFlags(f, now)
    \/ \E f \in CliForms, ans \in CliAnswers :
          \E now \in ClockReads(InteractiveCandidate[f, ans].date) :
             AddCliInteractive(f, ans, now)
    \/ \E f \in WebForms, tid \in WebIds : \E now \in ClockReads(WebCandidate[f].date) :
          AddWeb(f, tid, now)
    \/ MigrateNoFile
    \/ \E s \in SourceIds : \E clock \in Clocks(Parsed[s]) : Migrate(s, clock)
    \/ \E s \in SourceIds : \E k \in 1..Len(Sources[s]) : \E clock \in Clocks(Parsed[s]) :
          MigrateFails(s, k, clock)
    \/ ShowBalance
    \/ \E month \in Months : MonthlyReport(month)
    \/ Index
    \/ ExportCsv
    \/ MigrateIntoEmpty

Spec == Init /\ [][Next]_vars

(* ------------------------------ claims ------------------------------- *)

Directions == {Income, Expense}

\* The sums the reports are specified by.
SumWhere(rows, direction) == SumAmounts({r \in rows : r.direction = direction})

Expected(rows) ==
    [income |-> SumWhere(rows, Income), expense |-> SumWhere(rows, Expense),
     balance |-> SumWhere(rows, Income) - SumWhere(rows, Expense)]

\* C1: no record is ever stored with a negative amount.
AmountsNonNegative == \A r \in store : r.amount >= 0

\* The record the last add handed to add_transaction_db.
PutRecord ==
    IF last.op = "put" THEN PutCandidate[last.arg.form]
    ELSE IF last.arg.ans = 0 THEN CliCandidate[last.arg.form]
    ELSE InteractiveCandidate[last.arg.form, last.arg.ans]

\* An optional field is stored as given, an empty one as absent.
StoredAs(given, stored) ==
    IF given = <<>> \/ given = None THEN stored = None ELSE stored = given

\* C2: after put(r), list_all holds exactly one record with r's id, and its
\* fields are the ones passed to put (an empty optional field is absent, an
\* empty date is the time of the call); a put on an existing id overwrites.
PutRoundTrip ==
    (last.op \in {"put", "cli"} /\ last.out.ok) =>
        LET c == PutRecord
        IN  /\ last.op = "put" => last.out.id = last.arg.tid
            /\ \A rows \in ReadTransactionsDb(store) :
                 \E i \in DOMAIN rows :
                    /\ rows[i].id = last.out.id
                    /\ \A j \in DOMAIN rows : rows[j].id = last.out.id => j = i
                    /\ rows[i].amount = c.amount
                    /\ rows[i].direction = c.direction
                    /\ StoredAs(c.category, rows[i].category)
                    /\ StoredAs(c.account, rows[i].account)
                    /\ StoredAs(c.description, rows[i].description)
                    /\ StoredAs(c.tags, rows[i].tags)
                    /\ IF c.date = <<>> \/ c.date = None THEN rows[i].date \in Nows
                       ELSE rows[i].date = c.date

\* C2 witness: a put that overwrote the record of its id, with an empty
\* optional field, while the table holds another record too.
PutOverwrote ==
    /\ last.op = "put" /\ last.out.ok /\ last.out.replaced
    /\ PutCandidate[last.arg.form].category = <<>>
    /\ Cardinality(store) >= 2

\* C3: a migrate leaves every stored record whose id occurs in the source
\* exactly as it was, and stores no second record with that id.
ImportKeepsExisting ==
    [][last'.op = "migrate" =>
         \A r \in store :
            (\E k \in DOMAIN Parsed[last'.arg.src] : Parsed[last'.arg.src][k].id = r.id)
               => /\ r \in store'
                  /\ \A x \in store' : x.id = r.id => x = r]_vars

\* C3 witness: a migrate whose source had a row with a stored id and other
\* field values.
ImportMetExistingId == last.op = "migrate" /\ last.out.clash

\* C4: the balance report is the sum of the income amounts, the sum of the
\* expense amounts and their difference, and the command line and the
\* dashboard compute the same three values.
BalanceIsIncomeMinusExpense ==
    /\ last.op = "balance" => last.out = Expected(store)
    /\ last.op = "index" => last.out.totals = Expected(store)
    /\ Totals(store) = IndexTotals(store)

\* C4 witness: a balance report over income and several expense records.
BalanceOverBothDirections ==
    /\ last.op = "balance"
    /\ \E r \in store : r.direction = Income
    /\ Cardinality({r \in store : r.direction = Expense}) >= 2

\* C5: monthly_report(m) sums exactly the records whose date starts with m,
\* character for character.
MonthlyIsPrefixMatch ==
    last.op = "monthly" =>
        last.out = Expected({r \in store : StartsWith(r.date, last.arg.month)})

\* C6: exporting the table and importing the file into an empty store
\* gives the same record set.
ExportImportRoundTrip == last.op = "reimport" => last.out.result = store

Refused(rows) == {k \in DOMAIN rows : ~rows[k].skip /\ rows[k].direction \notin Directions}

WithoutRefused(rows) == SelectSeq(rows, LAMBDA r : r.skip \/ r.direction \in Directions)

Label(r) == IF r.category = None \/ r.category = <<>> THEN Uncategorized ELSE r.category

\* C9: the expense-by-category list has exactly one entry per label of the
\* expense records, its total is the sum over the expense records of that
\* label, and the entries are in descending order of total.
OneEntryPerLabel ==
    last.op = "index" =>
        LET cats     == last.out.cats
            expenses == {r \in store : r.direction = Expense}
        IN  /\ \A i, j \in DOMAIN cats : cats[i].category = cats[j].category => i = j
            /\ {cats[i].category : i \in DOMAIN cats} = {Label(r) : r \in expenses}
            /\ \A i \in DOMAIN cats :
                  cats[i].total = SumAmounts({r \in expenses : Label(r) = cats[i].category})
            /\ \A i, j \in DOMAIN cats : i < j => cats[i].total >= cats[j].total

AllRowsHaveId(rows) == \A k \in DOMAIN rows : rows[k].id # <<>>

\* C10: after a migrate of a source whose rows all carry an id, migrating
\* the same source again changes nothing, whatever the clock reads.
MigrateTwiceIsMigrateOnce ==
    (last.op = "migrate" /\ AllRowsHaveId(Parsed[last.arg.src])) =>
        LET rows == Parsed[last.arg.src]
        IN  \A clock \in Clocks(rows) :
               MigrateRows(store, rows, clock, Len(rows)).tbl = store

\* C10 witness: a migrate that added both rows of the first source, one of
\* them dated by the clock.
MigrateAddedRows ==
    /\ last.op = "migrate" /\ last.arg.src = 1 /\ last.out.added = 2
====
